---- MODULE Spec2Model ----
(***************************************************************************)
(* LitModel (src/gesture_classification/model.py): the Lightning wrapper   *)
(* that selects a video backbone, adapts the input tensor, and keeps five  *)
(* binary-classification metric accumulators per phase.                    *)
(*                                                                         *)
(* Two specifications:                                                     *)
(*   Spec         the object's lifecycle: __init__, configure_optimizers,  *)
(*                training_step / training_epoch_end, validation_step /    *)
(*                validation_epoch_end, called by the training driver.     *)
(*   SpecAdapter  the input adapter's pure functions _reshape and          *)
(*                _normalize applied to tensors drawn from a bounded set.  *)
(*                                                                         *)
(* Numbers: tensor elements are in units of 0.1 (0.5 is 5); probabilities  *)
(* and metric values are in units of 0.01 (0.5 is 50).                     *)
(***************************************************************************)
EXTENDS Integers, Sequences, FiniteSets, TLC

\* ---------------------------------------------------------------- bounds
\* Largest batch handed to a step hook.
MaxBatch == 2
\* Largest number of samples the running epochs of the two phases hold
\* together: the driver feeds no batch that would exceed it.
MaxSamples == 2
\* Largest number of training epochs the driver ends.
MaxEpochs == 1
\* Largest extent of the first axis of an adapter input (above three, so
\* that a slice of three along it is a proper part).
MaxTensorBatch == 4
\* Largest extent of the time, height and width axes of an adapter input.
MaxDim == 2

\* ------------------------------------------------------------ parameters
\* model_name: the three tags configure_model knows, and one it does not.
ModelNames == {"timesformer", "r2plus1", "videomae", "resnet"}
\* use_keypoints: "False" is Python False / 0, "True" is Python True / 1
\* (0 == False and 1 == True in Python), "only" the string 'only', and
\* "both" a value none of the comparisons accepts.
KeypointModes == {"False", "True", "only", "both"}
SchedulerNames == {"multi-step-lr", "cosine"}

\* A Python local that was never assigned / an attribute never set.
Unbound == <<>>
\* Python None, and a defined scalar v.
None == <<>>
Some(v) == <<v>>

VARIABLES
    \* constructor arguments
    model_name, use_keypoints, scheduler_name,
    \* "args": before __init__; "constructed"; "failed": __init__ raised;
    \* "fitting": configure_optimizers returned; "aborted": it raised
    status,
    \* the exception the last failing call raised ("none" if none)
    error,
    \* configure_model's local in_chans, and self.model
    in_chans, model,
    \* the optimizer and scheduler objects configure_optimizers has built
    optimizer, scheduler,
    \* the ten metric objects
    train_precision, train_accuracy, train_recall, train_f1, train_iou,
    val_precision, val_accuracy, val_recall, val_f1, val_iou,
    \* the last hook called, the batch it was given, the tensor it passed
    \* to the backbone, the operations it performed in order, the values
    \* it emitted through self.log, and what it returned
    hook, batch, fwd_x, trace, logged, ret,
    \* the driver's bookkeeping: training epochs ended so far (the validation
    \* loop runs inside the training epoch, any number of times), and the
    \* statistics of the batches of the running epoch per phase
    train_epoch, train_seen, val_seen,
    \* SpecAdapter: the input tensor, which axis of it holds the channels,
    \* the adapter function applied ("none" before), and its result
    x_in, x_caxis, x_op, x_out

cfgvars == <<model_name, use_keypoints, scheduler_name>>
trainvars == <<train_precision, train_accuracy, train_recall, train_f1, train_iou>>
valvars == <<val_precision, val_accuracy, val_recall, val_f1, val_iou>>
callvars == <<hook, batch, fwd_x, trace, logged, ret>>
drivervars == <<train_epoch, train_seen, val_seen>>
adaptervars == <<x_in, x_caxis, x_op, x_out>>
objvars == <<status, error, in_chans, model, optimizer, scheduler>>
vars == <<cfgvars, objvars, trainvars, valvars, callvars, drivervars, adaptervars>>

\* ---------------------------------------------------------------- tensors
\* A five-axis tensor: its shape and its elements by index tuple.
Indices(shape) ==
    {<<a, b, c, d, e>> : a \in 1..shape[1], b \in 1..shape[2], c \in 1..shape[3],
                         d \in 1..shape[4], e \in 1..shape[5]}

\* Row-major offset of an index tuple.
Offset(shape, idx) ==
    ((((idx[1] - 1) * shape[2] + (idx[2] - 1)) * shape[3] + (idx[3] - 1))
        * shape[4] + (idx[4] - 1)) * shape[5] + (idx[5] - 1)

\* The input tensor of a given shape: pairwise distinct elements.
Tensor(shape) ==
    [shape |-> shape, data |-> [idx \in Indices(shape) |-> 10 * Offset(shape, idx)]]

NoTensor == [shape |-> <<0, 0, 0, 0, 0>>, data |-> <<>>]

\* Place of an axis name in an einops pattern side.
AxisOf(side, name) == CHOOSE i \in 1..Len(side) : side[i] = name

\* An einops pattern "<lhs> -> <rhs>" that only transposes named axes:
\* from[i] is the input axis that becomes output axis i, to[j] the output
\* axis that input axis j becomes.
Pattern(lhs, rhs) ==
    [from |-> <<AxisOf(lhs, rhs[1]), AxisOf(lhs, rhs[2]), AxisOf(lhs, rhs[3]),
                AxisOf(lhs, rhs[4]), AxisOf(lhs, rhs[5])>>,
     to |-> <<AxisOf(rhs, lhs[1]), AxisOf(rhs, lhs[2]), AxisOf(rhs, lhs[3]),
              AxisOf(rhs, lhs[4]), AxisOf(rhs, lhs[5])>>]

\* The two patterns of _reshape.
ToTimesformer == Pattern(<<"b", "t", "h", "w", "c">>, <<"b", "c", "t", "h", "w">>)
ToVideoMAE == Pattern(<<"b", "t", "h", "w", "c">>, <<"b", "t", "c", "h", "w">>)

\* einops.rearrange(x, pattern).
rearrange(x, p) ==
    [shape |-> <<x.shape[p.from[1]], x.shape[p.from[2]], x.shape[p.from[3]],
                 x.shape[p.from[4]], x.shape[p.from[5]]>>,
     data |-> [idx \in Indices(<<x.shape[p.from[1]], x.shape[p.from[2]], x.shape[p.from[3]],
                                 x.shape[p.from[4]], x.shape[p.from[5]]>>) |->
                 x.data[<<idx[p.to[1]], idx[p.to[2]], idx[p.to[3]], idx[p.to[4]],
                          idx[p.to[5]]>>]]]

\* ------------------------------------------------------- the input adapter
\* _reshape with videomae's pattern mistaken for timesformer's.
reshape_swapped(name, x) ==
    IF name = "timesformer"
    THEN rearrange(x, ToTimesformer)
    ELSE IF name = "videomae"
    THEN rearrange(x, ToTimesformer)
    ELSE x

\* LitModel._reshape, with self.model_name = name.
_reshape(name, x) ==
    IF name = "timesformer"
    THEN rearrange(x, ToTimesformer)
    ELSE IF name = "videomae"
    THEN rearrange(x, ToVideoMAE)
    ELSE x

\* LitModel._normalize, with self.use_keypoints = kp: x[:3] is the slice of
\* the first three entries along the FIRST axis, whatever that axis holds.
_normalize(kp, x) ==
    IF kp \in {"False", "True"}
    THEN [x EXCEPT !.data = [idx \in DOMAIN x.data |->
                               IF idx[1] <= 3 THEN x.data[idx] - 5 ELSE x.data[idx]]]
    ELSE x

\* ------------------------------------------------- metrics (torchmetrics)
\* A binary metric object: its kind and its confusion counts.
MetricKinds ==
    {"BinaryPrecision", "BinaryAccuracy", "BinaryRecall", "BinaryF1Score",
     "BinaryJaccardIndex"}

Stats(tp, fp, tn, fn) == [tp |-> tp, fp |-> fp, tn |-> tn, fn |-> fn]
NoStats == Stats(0, 0, 0, 0)
Total(s) == s.tp + s.fp + s.tn + s.fn
AddStats(s, d) == Stats(s.tp + d.tp, s.fp + d.fp, s.tn + d.tn, s.fn + d.fn)

\* The metric's constructor: the empty state of its kind.
Metric(kind) == [kind |-> kind, tp |-> 0, fp |-> 0, tn |-> 0, fn |-> 0]
\* An attribute __init__ has not set yet.
NoMetric == Metric("unset")

StatsOf(m) == Stats(m.tp, m.fp, m.tn, m.fn)

\* The logits the model draws from: one on the decision boundary and one
\* above it. torch.sigmoid on a logit, in units of 0.01.
Logits == {0, 1}
sigmoid(v) == IF v < 0 THEN 27 ELSE IF v = 0 THEN 50 ELSE 73

\* The metrics' default threshold of 0.5: a prediction is positive when its
\* probability is strictly above it.
Threshold == 50
Positive(p) == p > Threshold

\* Confusion counts of one batch of probabilities against labels.
Count(S) == Cardinality(S)
BatchStats(probs, y) ==
    LET I == 1..Len(y)
    IN  Stats(Count({i \in I : Positive(probs[i]) /\ y[i] = 1}),
              Count({i \in I : Positive(probs[i]) /\ y[i] = 0}),
              Count({i \in I : ~Positive(probs[i]) /\ y[i] = 0}),
              Count({i \in I : ~Positive(probs[i]) /\ y[i] = 1}))

\* Division that yields 0 on an empty denominator, in units of 0.01.
SafeDivide(num, den) == IF den = 0 THEN 0 ELSE (100 * num) \div den

\* The value of a metric kind over confusion counts.
Value(kind, s) ==
    CASE kind = "BinaryAccuracy" -> SafeDivide(s.tp + s.tn, Total(s))
      [] kind = "BinaryPrecision" -> SafeDivide(s.tp, s.tp + s.fp)
      [] kind = "BinaryRecall" -> SafeDivide(s.tp, s.tp + s.fn)
      [] kind = "BinaryF1Score" -> SafeDivide(2 * s.tp, 2 * s.tp + s.fp + s.fn)
      [] kind = "BinaryJaccardIndex" -> SafeDivide(s.tp, s.tp + s.fp + s.fn)

\* Metric.update(probs, y), d being the confusion counts of (probs, y):
\* accumulates; returns None.
update(m, d) ==
    [m EXCEPT !.tp = @ + d.tp, !.fp = @ + d.fp, !.tn = @ + d.tn, !.fn = @ + d.fn]

\* Metric.__call__(probs, y), d being the confusion counts of (probs, y):
\* accumulates and returns the value over this batch alone.
call(m, d) == [state |-> update(m, d), value |-> Some(Value(m.kind, d))]

\* Metric.compute(): the value over everything accumulated since reset.
compute(m) == Some(Value(m.kind, StatsOf(m)))

\* Metric.reset(): back to the empty state.
reset(m) == Metric(m.kind)

\* ------------------------------------------------------------ construction
\* LitModel.configure_model: the locals in_chans and model when it returns,
\* or the exception it raises.
configure_model(name, kp) ==
    LET chans == IF kp = "False" THEN Some(3)
                 ELSE IF kp = "True" THEN Some(4)
                 ELSE IF kp = "only" THEN Some(1)
                 ELSE Unbound
    IN  IF name = "timesformer"
        THEN IF chans = Unbound
             THEN [in_chans |-> chans, model |-> Unbound, error |-> "UnboundLocalError"]
             ELSE [in_chans |-> chans, model |-> "TimeSformer", error |-> "none"]
        ELSE IF name = "r2plus1"
        THEN [in_chans |-> chans, model |-> "r2plus1d_18", error |-> "none"]
        ELSE IF name = "videomae"
        THEN [in_chans |-> chans, model |-> "VideoMAEForVideoClassification",
              error |-> "none"]
        ELSE [in_chans |-> chans, model |-> Unbound, error |-> "UnboundLocalError"]

\* LitModel.__init__: configure_model first; the metric objects are created
\* only when it returned.
__init__ ==
    LET r == configure_model(model_name, use_keypoints)
    IN  /\ in_chans' = r.in_chans
        /\ IF r.error # "none"
           THEN /\ status' = "failed"
                /\ error' = r.error
                /\ UNCHANGED <<model, trainvars, valvars>>
           ELSE /\ status' = "constructed"
                /\ model' = r.model
                /\ train_precision' = Metric("BinaryPrecision")
                /\ train_accuracy' = Metric("BinaryAccuracy")
                /\ train_recall' = Metric("BinaryRecall")
                /\ train_f1' = Metric("BinaryF1Score")
                /\ train_iou' = Metric("BinaryJaccardIndex")
                /\ val_precision' = Metric("BinaryPrecision")
                /\ val_accuracy' = Metric("BinaryAccuracy")
                /\ val_recall' = Metric("BinaryRecall")
                /\ val_f1' = Metric("BinaryF1Score")
                /\ val_iou' = Metric("BinaryJaccardIndex")
                /\ UNCHANGED error
        /\ UNCHANGED <<cfgvars, optimizer, scheduler>>

\* LitModel.configure_scheduler: the scheduler it returns, or the exception
\* the unassigned local raises at the return.
configure_scheduler(name) ==
    IF name = "multi-step-lr"
    THEN [scheduler |-> "MultiStepLR", error |-> "none"]
    ELSE [scheduler |-> Unbound, error |-> "UnboundLocalError"]

\* LitModel.configure_optimizers: Adam is built, then the scheduler.
configure_optimizers ==
    LET r == configure_scheduler(scheduler_name)
    IN  /\ optimizer' = "Adam"
        /\ scheduler' = r.scheduler
        /\ error' = r.error
        /\ status' = IF r.error = "none" THEN "fitting" ELSE "aborted"
        /\ UNCHANGED <<cfgvars, in_chans, model, trainvars, valvars>>

\* ------------------------------------------------------------------ steps
\* A batch: the video tensor x in the ingestion layout (batch, time,
\* height, width, channel) and one binary label per sample.
Channels(kp) == IF kp = "True" THEN 4 ELSE IF kp = "only" THEN 1 ELSE 3

Batches(kp) ==
    UNION {LET x == Tensor(<<n, 1, 1, 1, Channels(kp)>>)
           IN  {[x |-> x, y |-> y] : y \in [1..n -> {0, 1}]}
           : n \in 1..MaxBatch}
NoBatch == [x |-> NoTensor, y |-> <<>>]

\* What the backbone returns for n samples with the logits l: one row of
\* one logit per sample; VideoMAE wraps it in an output object.
Outputs(name, n) ==
    {IF name = "videomae" THEN [logits |-> [i \in 1..n |-> <<l[i]>>]]
                          ELSE [i \in 1..n |-> <<l[i]>>]
     : l \in [1..n -> Logits]}

\* LitModel.forward on the backbone's output.
forward(name, out) == IF name = "videomae" THEN out.logits ELSE out

\* t[:, 0] of a two-axis tensor.
Column0(t) == [i \in 1..Len(t) |-> t[i][1]]

\* What the external criterion returns (the loss factory is not part of
\* this class): a scalar the hooks pass on without looking at it.
Losses == {7}

LogKeys ==
    {"train_loss_step", "train_acc_step", "train_prec_step", "train_rec_step",
     "train_f1_step", "train_iou_step",
     "val_loss", "val_acc", "val_prec", "val_rec", "val_f1", "val_iou"}
NoLogs == [k \in LogKeys |-> None]
\* self.log(key, value) for each pair of a call.
Log(pairs) == pairs @@ NoLogs

HookNames ==
    {"training_step", "training_epoch_end", "validation_step", "validation_epoch_end"}

\* LitModel.training_step on batch b, the backbone returning out and the
\* criterion returning loss.
training_step(b, out, loss) ==
    LET x == _reshape(model_name, b.x)
        y_hat == Column0(forward(model_name, out))
        probs == [i \in 1..Len(y_hat) |-> sigmoid(y_hat[i])]
    IN  \E d \in {BatchStats(probs, b.y)} :
          LET acc == call(train_accuracy, d)
              prec == call(train_precision, d)
              rec == call(train_recall, d)
              f1 == call(train_f1, d)
              iou == call(train_iou, d)
          IN  /\ fwd_x' = x
              /\ train_accuracy' = acc.state
              /\ train_precision' = prec.state
              /\ train_recall' = rec.state
              /\ train_f1' = f1.state
              /\ train_iou' = iou.state
              /\ logged' = Log([train_loss_step |-> Some(loss),
                                train_acc_step |-> acc.value,
                                train_prec_step |-> prec.value,
                                train_rec_step |-> rec.value,
                                train_f1_step |-> f1.value,
                                train_iou_step |-> iou.value])
              /\ trace' = <<"reshape", "forward", "loss", "sigmoid", "update", "emit">>
              /\ ret' = Some(loss)
              /\ UNCHANGED valvars

\* training_epoch_end with the reset of one accumulator left out.
training_epoch_end_keeps_iou ==
    /\ train_accuracy' = reset(train_accuracy)
    /\ train_precision' = reset(train_precision)
    /\ train_recall' = reset(train_recall)
    /\ train_f1' = reset(train_f1)
    /\ train_iou' = train_iou
    /\ logged' = NoLogs
    /\ trace' = <<"reset">>
    /\ ret' = None
    /\ UNCHANGED <<valvars, fwd_x>>

\* LitModel.training_epoch_end.
training_epoch_end ==
    /\ train_accuracy' = reset(train_accuracy)
    /\ train_precision' = reset(train_precision)
    /\ train_recall' = reset(train_recall)
    /\ train_f1' = reset(train_f1)
    /\ train_iou' = reset(train_iou)
    /\ logged' = NoLogs
    /\ trace' = <<"reset">>
    /\ ret' = None
    /\ UNCHANGED <<valvars, fwd_x>>

\* LitModel.validation_step: the metrics' update() is called, and what it
\* returns (None) is put in the mapping.
validation_step(b, out, loss) ==
    LET x == _reshape(model_name, b.x)
        y_hat == Column0(forward(model_name, out))
        probs == [i \in 1..Len(y_hat) |-> sigmoid(y_hat[i])]
    IN  \E d \in {BatchStats(probs, b.y)} :
          /\ fwd_x' = x
          /\ val_accuracy' = update(val_accuracy, d)
          /\ val_precision' = update(val_precision, d)
          /\ val_recall' = update(val_recall, d)
          /\ val_iou' = update(val_iou, d)
          /\ val_f1' = update(val_f1, d)
          /\ logged' = Log([val_loss |-> Some(loss)])
          /\ trace' = <<"reshape", "forward", "loss", "emit", "sigmoid", "update">>
          /\ ret' = [loss |-> Some(loss), acc |-> None, rec |-> None, prec |-> None,
                     f1 |-> None, iou |-> None]
          /\ UNCHANGED trainvars

\* validation_epoch_end with the resets moved before the reads.
validation_epoch_end_reset_first ==
    /\ val_accuracy' = reset(val_accuracy)
    /\ val_precision' = reset(val_precision)
    /\ val_recall' = reset(val_recall)
    /\ val_f1' = reset(val_f1)
    /\ val_iou' = reset(val_iou)
    /\ logged' = Log([val_acc |-> compute(val_accuracy'), val_prec |-> compute(val_precision'),
                      val_rec |-> compute(val_recall'), val_f1 |-> compute(val_f1'),
                      val_iou |-> compute(val_iou')])
    /\ trace' = <<"reset", "compute", "emit">>
    /\ ret' = None
    /\ UNCHANGED <<trainvars, fwd_x>>

\* validation_epoch_end clearing the training accumulators as well.
validation_epoch_end_resets_all ==
    /\ logged' = Log([val_acc |-> compute(val_accuracy), val_prec |-> compute(val_precision),
                      val_rec |-> compute(val_recall), val_f1 |-> compute(val_f1),
                      val_iou |-> compute(val_iou)])
    /\ val_accuracy' = reset(val_accuracy)
    /\ val_precision' = reset(val_precision)
    /\ val_recall' = reset(val_recall)
    /\ val_f1' = reset(val_f1)
    /\ val_iou' = reset(val_iou)
    /\ train_accuracy' = reset(train_accuracy)
    /\ train_precision' = reset(train_precision)
    /\ train_recall' = reset(train_recall)
    /\ train_f1' = reset(train_f1)
    /\ train_iou' = reset(train_iou)
    /\ trace' = <<"compute", "emit", "reset">>
    /\ ret' = None
    /\ UNCHANGED fwd_x

\* LitModel.validation_epoch_end.
validation_epoch_end ==
    /\ logged' = Log([val_acc |-> compute(val_accuracy), val_prec |-> compute(val_precision),
                      val_rec |-> compute(val_recall), val_f1 |-> compute(val_f1),
                      val_iou |-> compute(val_iou)])
    /\ val_accuracy' = reset(val_accuracy)
    /\ val_precision' = reset(val_precision)
    /\ val_recall' = reset(val_recall)
    /\ val_f1' = reset(val_f1)
    /\ val_iou' = reset(val_iou)
    /\ trace' = <<"compute", "emit", "reset">>
    /\ ret' = None
    /\ UNCHANGED <<trainvars, fwd_x>>

\* ----------------------------------------------------------------- driver
\* The training driver constructs the object once, asks it for its
\* optimizers, and then calls the step and epoch-end hooks of the two
\* phases, the validation loop running inside the training epoch.
Construct ==
    /\ status = "args"
    /\ __init__
    /\ UNCHANGED <<callvars, drivervars, adaptervars>>

ConfigureOptimizers ==
    /\ status = "constructed"
    /\ configure_optimizers
    /\ UNCHANGED <<callvars, drivervars, adaptervars>>

\* The statistics of the batch the driver has just fed.
Fed(out, y) ==
    LET l == Column0(forward(model_name, out))
    IN  BatchStats([i \in 1..Len(l) |-> sigmoid(l[i])], y)

TrainingStep ==
    /\ status = "fitting"
    /\ \E b \in Batches(use_keypoints) :
         /\ Total(train_seen) + Total(val_seen) + Len(b.y) <= MaxSamples
         /\ \E out \in Outputs(model_name, Len(b.y)), loss \in Losses :
              /\ training_step(b, out, loss)
              /\ train_seen' = AddStats(train_seen, Fed(out, b.y))
         /\ batch' = b
    /\ hook' = "training_step"
    /\ UNCHANGED <<cfgvars, objvars, train_epoch, val_seen, adaptervars>>

TrainingEpochEnd ==
    /\ status = "fitting"
    /\ train_epoch < MaxEpochs
    /\ training_epoch_end
    /\ hook' = "training_epoch_end"
    /\ batch' = NoBatch
    /\ train_epoch' = train_epoch + 1
    /\ train_seen' = NoStats
    /\ UNCHANGED <<cfgvars, objvars, val_seen, adaptervars>>

ValidationStep ==
    /\ status = "fitting"
    /\ \E b \in Batches(use_keypoints) :
         /\ Total(train_seen) + Total(val_seen) + Len(b.y) <= MaxSamples
         /\ \E out \in Outputs(model_name, Len(b.y)), loss \in Losses :
              /\ validation_step(b, out, loss)
              /\ val_seen' = AddStats(val_seen, Fed(out, b.y))
         /\ batch' = b
    /\ hook' = "validation_step"
    /\ UNCHANGED <<cfgvars, objvars, train_epoch, train_seen, adaptervars>>

ValidationEpochEnd ==
    /\ status = "fitting"
    /\ validation_epoch_end
    /\ hook' = "validation_epoch_end"
    /\ batch' = NoBatch
    /\ val_seen' = NoStats
    /\ UNCHANGED <<cfgvars, objvars, train_epoch, train_seen, adaptervars>>

Init ==
    /\ model_name \in ModelNames
    /\ use_keypoints \in KeypointModes
    /\ scheduler_name \in SchedulerNames
    /\ status = "args"
    /\ error = "none"
    /\ in_chans = Unbound
    /\ model = Unbound
    /\ optimizer = Unbound
    /\ scheduler = Unbound
    /\ train_precision = NoMetric /\ train_accuracy = NoMetric /\ train_recall = NoMetric
    /\ train_f1 = NoMetric /\ train_iou = NoMetric
    /\ val_precision = NoMetric /\ val_accuracy = NoMetric /\ val_recall = NoMetric
    /\ val_f1 = NoMetric /\ val_iou = NoMetric
    /\ hook = "none" /\ batch = NoBatch /\ fwd_x = NoTensor /\ trace = <<>>
    /\ logged = NoLogs /\ ret = None
    /\ train_epoch = 0 /\ train_seen = NoStats /\ val_seen = NoStats
    /\ x_in = NoTensor /\ x_caxis = 0 /\ x_op = "none" /\ x_out = NoTensor

Next ==
    \/ Construct
    \/ ConfigureOptimizers
    \/ TrainingStep
    \/ TrainingEpochEnd
    \/ ValidationStep
    \/ ValidationEpochEnd

Spec == Init /\ [][Next]_vars

\* ---------------------------------------------------- the adapter, alone
\* A constructed object and an input tensor: the first axis up to
\* MaxTensorBatch long, the channel axis as long as the keypoint mode's
\* channel count, the other axes up to MaxDim long. The channel axis is
\* the last one in the ingestion layout, the second or third one after
\* _reshape.
AdapterShapes(kp, caxis) ==
    {s \in [1..5 -> 1..(IF MaxTensorBatch > MaxDim THEN MaxTensorBatch ELSE MaxDim)] :
        /\ s[caxis] = Channels(kp)
        /\ \A i \in 2..5 : i # caxis => s[i] <= MaxDim}

InitAdapter ==
    /\ model_name \in ModelNames
    /\ use_keypoints \in KeypointModes
    /\ scheduler_name = "multi-step-lr"
    /\ configure_model(model_name, use_keypoints).error = "none"
    /\ status = "constructed"
    /\ error = "none"
    /\ in_chans = configure_model(model_name, use_keypoints).in_chans
    /\ model = configure_model(model_name, use_keypoints).model
    /\ optimizer = Unbound
    /\ scheduler = Unbound
    /\ train_precision = Metric("BinaryPrecision") /\ train_accuracy = Metric("BinaryAccuracy")
    /\ train_recall = Metric("BinaryRecall") /\ train_f1 = Metric("BinaryF1Score")
    /\ train_iou = Metric("BinaryJaccardIndex")
    /\ val_precision = Metric("BinaryPrecision") /\ val_accuracy = Metric("BinaryAccuracy")
    /\ val_recall = Metric("BinaryRecall") /\ val_f1 = Metric("BinaryF1Score")
    /\ val_iou = Metric("BinaryJaccardIndex")
    /\ hook = "none" /\ batch = NoBatch /\ fwd_x = NoTensor /\ trace = <<>>
    /\ logged = NoLogs /\ ret = None
    /\ train_epoch = 0 /\ train_seen = NoStats /\ val_seen = NoStats
    /\ x_caxis \in {2, 3, 5}
    /\ \E s \in AdapterShapes(use_keypoints, x_caxis) : x_in = Tensor(s)
    /\ x_op = "none"
    /\ x_out = NoTensor

ApplyReshape ==
    /\ x_op = "none"
    /\ x_op' = "reshape"
    /\ x_out' = _reshape(model_name, x_in)
    /\ UNCHANGED <<cfgvars, objvars, trainvars, valvars, callvars, drivervars, x_in, x_caxis>>

ApplyNormalize ==
    /\ x_op = "none"
    /\ x_op' = "normalize"
    /\ x_out' = _normalize(use_keypoints, x_in)
    /\ UNCHANGED <<cfgvars, objvars, trainvars, valvars, callvars, drivervars, x_in, x_caxis>>

NextAdapter ==
    \/ ApplyReshape
    \/ ApplyNormalize

SpecAdapter == InitAdapter /\ [][NextAdapter]_vars

\* ================================================================= claims
TrainMetrics == <<train_precision, train_accuracy, train_recall, train_f1, train_iou>>
ValMetrics == <<val_precision, val_accuracy, val_recall, val_f1, val_iou>>
FreshMetrics ==
    <<Metric("BinaryPrecision"), Metric("BinaryAccuracy"), Metric("BinaryRecall"),
      Metric("BinaryF1Score"), Metric("BinaryJaccardIndex")>>
TrainHooks == {"training_step", "training_epoch_end"}
ValHooks == {"validation_step", "validation_epoch_end"}
StepHooks == {"training_step", "validation_step"}

\* What a validation epoch must emit when the batches of the epoch have the
\* confusion counts s.
EpochValues(s) ==
    Log([val_acc |-> Some(Value("BinaryAccuracy", s)),
         val_prec |-> Some(Value("BinaryPrecision", s)),
         val_rec |-> Some(Value("BinaryRecall", s)),
         val_f1 |-> Some(Value("BinaryF1Score", s)),
         val_iou |-> Some(Value("BinaryJaccardIndex", s))])

\* C1: a validation_epoch_end call emits, for each of the five validation
\* metrics, the value over exactly the batches validation_step was given
\* in this epoch, and leaves all five validation accumulators empty.
C1_ReadThenReset ==
    [][hook' = "validation_epoch_end" =>
         /\ logged' = EpochValues(val_seen)
         /\ ValMetrics' = FreshMetrics]_vars

\* A validation epoch of one true positive and one false positive has been
\* read (accuracy 0.5, precision 0.5, recall 1, F1 0.66, IoU 0.5) and reset.
C1_Witness ==
    /\ hook = "validation_epoch_end"
    /\ logged = EpochValues(Stats(1, 1, 0, 0))
    /\ logged["val_f1"] = Some(66)
    /\ ValMetrics = FreshMetrics

\* C2: in every training_step and validation_step the tensor handed to the
\* backbone is the batch's video tensor reshaped and then normalized, and
\* the step runs adapt input, forward, loss, sigmoid, accumulator update,
\* emit in that order.
C2_AdaptThenForward ==
    hook \in StepHooks =>
        /\ fwd_x = _normalize(use_keypoints, _reshape(model_name, batch.x))
        /\ trace = <<"reshape", "normalize", "forward", "loss", "sigmoid", "update", "emit">>

\* C3: the mapping validation_step returns binds each of the five metric
\* names to a defined value in [0, 1], never to None.
C3_StepMappingDefined ==
    hook = "validation_step" =>
        \A k \in {"acc", "prec", "rec", "f1", "iou"} :
            /\ ret[k] # None
            /\ ret[k] \in {Some(v) : v \in 0..100}

\* C4: no optimizer is ever built for an object whose scheduler name is
\* not "multi-step-lr": such a name is rejected when the object is
\* constructed.
C4_UnsupportedSchedulerRejected ==
    scheduler_name # "multi-step-lr" =>
        /\ optimizer = Unbound
        /\ status \in {"args", "failed"}

\* C5: once the constructor has run, the channel count is 3, 4 or 1 for
\* the keypoint modes disabled, enabled, only, and for any other mode the
\* constructor has failed with InvalidConfiguration, whatever the backbone.
C5_ChannelsOrInvalid ==
    status # "args" =>
        IF use_keypoints \in {"False", "True", "only"}
        THEN in_chans = Some(Channels(use_keypoints))
        ELSE status = "failed" /\ error = "InvalidConfiguration"

\* C6: with a backbone tag outside the three known ones the constructor
\* fails with InvalidConfiguration and no model is stored.
C6_UnknownTagRejected ==
    (model_name \notin {"timesformer", "r2plus1", "videomae"} /\ status # "args") =>
        /\ status = "failed"
        /\ error = "InvalidConfiguration"
        /\ model = Unbound

\* C7: _normalize, in the modes disabled and enabled, subtracts 0.5 from
\* the elements of the first three channels of every sample and leaves the
\* fourth channel alone; in the mode only it returns its input.
C7_NormalizesRGBChannels ==
    (x_op = "normalize" /\ use_keypoints \in {"False", "True", "only"}) =>
        IF use_keypoints = "only"
        THEN x_out = x_in
        ELSE /\ x_out.shape = x_in.shape
             /\ \A idx \in Indices(x_in.shape) :
                  x_out.data[idx] =
                      IF idx[x_caxis] <= 3 THEN x_in.data[idx] - 5 ELSE x_in.data[idx]

\* C8: in each phase the five accumulators hold exactly the batches of the
\* running epoch (so they are empty when an epoch begins), a step never
\* takes anything out of them, and the epoch-end hook empties them.
StatsLeq(s, t) == s.tp <= t.tp /\ s.fp <= t.fp /\ s.tn <= t.tn /\ s.fn <= t.fn
C8_EpochIsolation ==
    /\ [](status = "fitting" =>
            /\ \A i \in 1..5 : StatsOf(TrainMetrics[i]) = train_seen
            /\ \A i \in 1..5 : StatsOf(ValMetrics[i]) = val_seen)
    /\ [][/\ hook' = "training_epoch_end" => TrainMetrics' = FreshMetrics
          /\ hook' = "validation_epoch_end" => ValMetrics' = FreshMetrics
          /\ (status = "fitting" /\ hook' # "training_epoch_end") =>
                \A i \in 1..5 : StatsLeq(StatsOf(TrainMetrics[i]), StatsOf(TrainMetrics[i]'))
          /\ (status = "fitting" /\ hook' # "validation_epoch_end") =>
                \A i \in 1..5 : StatsLeq(StatsOf(ValMetrics[i]), StatsOf(ValMetrics[i]'))]_vars

\* The training phase is in a later epoch than the first, with a batch in,
\* and so is the validation phase after an epoch-end of its own.
C8_Witness ==
    /\ train_epoch >= 1
    /\ hook = "validation_step"
    /\ Total(train_seen) >= 1 /\ Total(val_seen) >= 1
    /\ StatsOf(train_iou) = train_seen
    /\ StatsOf(val_iou) = val_seen

\* The inverse permutations, back to the ingestion layout.
FromTimesformer == Pattern(<<"b", "c", "t", "h", "w">>, <<"b", "t", "h", "w", "c">>)
FromVideoMAE == Pattern(<<"b", "t", "c", "h", "w">>, <<"b", "t", "h", "w", "c">>)

\* C9: _reshape on an input of shape (B,T,H,W,C) gives (B,C,T,H,W) for
\* "timesformer" and (B,T,C,H,W) for "videomae", each element landing at
\* the permuted index; the inverse permutation gives the input back; any
\* other tag gets its input back unchanged.
C9_ReshapeIsPermutation ==
    x_op = "reshape" =>
        LET s == x_in.shape
        IN  IF model_name = "timesformer"
            THEN /\ x_out.shape = <<s[1], s[5], s[2], s[3], s[4]>>
                 /\ DOMAIN x_out.data = Indices(x_out.shape)
                 /\ \A i \in Indices(s) :
                      x_out.data[<<i[1], i[5], i[2], i[3], i[4]>>] = x_in.data[i]
                 /\ rearrange(x_out, FromTimesformer) = x_in
            ELSE IF model_name = "videomae"
            THEN /\ x_out.shape = <<s[1], s[2], s[5], s[3], s[4]>>
                 /\ DOMAIN x_out.data = Indices(x_out.shape)
                 /\ \A i \in Indices(s) :
                      x_out.data[<<i[1], i[2], i[5], i[3], i[4]>>] = x_in.data[i]
                 /\ rearrange(x_out, FromVideoMAE) = x_in
            ELSE x_out = x_in

\* A videomae input of shape (2,2,1,2,4) has been reshaped to (2,2,4,1,2).
C9_Witness ==
    /\ x_op = "reshape"
    /\ model_name = "videomae"
    /\ x_in.shape = <<2, 2, 1, 2, 4>>
    /\ x_out.shape = <<2, 2, 4, 1, 2>>

\* C10: the training hooks leave the five validation accumulators as they
\* are, and the validation hooks leave the five training accumulators as
\* they are, in whatever order the hooks are called.
C10_PhasesIsolated ==
    [][/\ hook' \in TrainHooks => ValMetrics' = ValMetrics
       /\ hook' \in ValHooks => TrainMetrics' = TrainMetrics]_vars

\* A validation epoch has ended in the middle of a training epoch, whose
\* accumulators still hold its batches.
C10_Witness ==
    /\ hook = "validation_epoch_end"
    /\ Total(train_seen) >= 1
    /\ \A i \in 1..5 : StatsOf(TrainMetrics[i]) = train_seen

====
